---- MODULE Spec2Model ----
(***************************************************************************)
(* Echo Chamber v3.0: the pattern-detection and extrapolation engine       *)
(* (class EchoChamber of echo-chamber-v3.js, kept in src/unnamed/part_000) *)
(* and its in-memory history, the callers that keep what they pass to the  *)
(* engine and what it returns, and the HTTP server in front of it          *)
(* (src/echo-chamber/web-demo.js).                                         *)
(*                                                                         *)
(* JavaScript values are modelled as records [k, n, d]:                    *)
(*   k = "num"   a number, the exact rational n/d (d > 0, lowest terms)    *)
(*   k = "nan"   the number NaN                                            *)
(*   k = "str"   a string element, k = "null" null, k = "undef" undefined  *)
(* IEEE-754 rounding is not modelled: arithmetic on numbers is exact, and  *)
(* the comparisons against the tolerance 1e-10 are exact comparisons of    *)
(* rationals.  Wall-clock timestamps are left out of the stored records;   *)
(* the measured analysis time is an input of the call.                     *)
(***************************************************************************)
EXTENDS Integers, Sequences, FiniteSets, TLC

VARIABLES memories, echoCount, analysisHistory, performanceMetrics, logs,
          sequence, predictCount, result, lastOp,
          handle, imported, requests, argument, sharing, v2

engine == <<memories, echoCount, analysisHistory, performanceMetrics, logs>>
call == <<sequence, predictCount, result, lastOp>>

(* what lies around the engine.  A caller holds handle, the array returned *)
(* by the last getMemories, and imported, a second engine into which it    *)
(* imports what the first one exports; requests are the HTTP requests of   *)
(* the server that owns the engine; argument is the array object the       *)
(* caller passed to its last predictNextNumber, as it is now, and sharing  *)
(* the positions of the stored Memories whose sequence is that very object; *)
(* v2 is an engine of the earlier version (index.js) given the same calls  *)
client == <<handle, imported, requests, argument, sharing, v2>>

vars == <<memories, echoCount, analysisHistory, performanceMetrics, logs,
          sequence, predictCount, result, lastOp,
          handle, imported, requests, argument, sharing, v2>>

----------------------------------------------------------------------------
(* Bounds of the model *)

MaxLen == 3
MaxNeg == 2
MaxVal == 4
MaxCount == 3
MaxTime == 1
MaxCalls == 2
MaxRequests == 3

----------------------------------------------------------------------------
(* Numbers *)

Abs(x) == IF x < 0 THEN -x ELSE x

RECURSIVE GCD(_, _)
GCD(a, b) == IF b = 0 THEN a ELSE GCD(b, a % b)

Num(n, d) ==
  LET s == IF d < 0 THEN -1 ELSE 1
      g == GCD(Abs(n), Abs(d))
  IN [k |-> "num", n |-> (s * n) \div g, d |-> (s * d) \div g]

IntNum(n) == [k |-> "num", n |-> n, d |-> 1]
NaN == [k |-> "nan", n |-> 0, d |-> 1]
Null == [k |-> "null", n |-> 0, d |-> 1]
Undefined == [k |-> "undef", n |-> 0, d |-> 1]
Str == [k |-> "str", n |-> 0, d |-> 1]

Plus(a, b) == Num(a.n * b.d + b.n * a.d, a.d * b.d)
Minus(a, b) == Num(a.n * b.d - b.n * a.d, a.d * b.d)
Times(a, b) == Num(a.n * b.n, a.d * b.d)
Divide(a, b) == Num(a.n * b.d, a.d * b.n)

(* 1e-10 = 1 / (TolScale * TolScale) *)
TolScale == 100000

(* Math.abs(x) > 1e-10 *)
AbsGreaterThanTolerance(x) == Abs(x.n) > ((x.d \div TolScale) \div TolScale)

(* Math.abs(x) < 1e-10 *)
AbsLessThanTolerance(x) == Abs(x.n) <= (((x.d - 1) \div TolScale) \div TolScale)

(* typeof num === 'number' && !isNaN(num) *)
TypeOf(v) ==
  IF v.k \in {"num", "nan"} THEN "number"
  ELSE IF v.k = "str" THEN "string"
  ELSE IF v.k = "undef" THEN "undefined"
  ELSE "object"

IsNaN(v) == v.k # "num" /\ v.k # "null"

(* faulty variant: the isNaN test is forgotten *)
IsValidNumber_TypeofOnly(v) == TypeOf(v) = "number"

IsValidNumber(v) == TypeOf(v) = "number" /\ ~IsNaN(v)

(* x || null *)
OrNull(v) ==
  IF v.k \in {"undef", "null", "nan"} \/ (v.k = "num" /\ v.n = 0) THEN Null ELSE v

(* rec.f, undefined when the property is absent *)
Get(rec, f) == IF f \in DOMAIN rec THEN rec[f] ELSE Undefined

(* An argument: an array of values, or something that is not an array *)
Array(items) == [isArray |-> TRUE, items |-> items]
NotAnArray == [isArray |-> FALSE, items |-> <<>>]

(* NoError stands for error: null *)
NoError == "null"
ErrTooShort == "Sequence must have at least 2 elements"
ErrNotNumbers == "All elements must be valid numbers"
ErrNotArithmetic == "Not an arithmetic progression"
ErrZero == "Geometric progression cannot have zero elements (except possibly the last)"
ErrNotGeometric == "Not a geometric progression"
ErrNoPolynomial == "No polynomial pattern detected up to degree 5"
ErrNoPattern == "No recognized pattern detected"

----------------------------------------------------------------------------
(* PatternClassifier *)

ShapeError(seq) == ~seq.isArray \/ Len(seq.items) < 2

ValueError(seq) == ~(\A i \in 1..Len(seq.items) : IsValidNumber(seq.items[i]))

validateArithmeticProgression(seq) ==
  IF ShapeError(seq)
  THEN [isValid |-> FALSE, error |-> ErrTooShort, difference |-> Null, type |-> "arithmetic"]
  ELSE IF ValueError(seq)
  THEN [isValid |-> FALSE, error |-> ErrNotNumbers, difference |-> Null, type |-> "arithmetic"]
  ELSE
    LET s == seq.items
        firstDifference == Minus(s[2], s[1])
    IN IF \E i \in 3..Len(s) :
            AbsGreaterThanTolerance(Minus(Minus(s[i], s[i - 1]), firstDifference))
       THEN [isValid |-> FALSE, error |-> ErrNotArithmetic, difference |-> Null,
             type |-> "arithmetic"]
       ELSE [isValid |-> TRUE, difference |-> firstDifference, error |-> NoError,
             type |-> "arithmetic"]

validateGeometricProgression(seq) ==
  IF ShapeError(seq)
  THEN [isValid |-> FALSE, error |-> ErrTooShort, ratio |-> Null, type |-> "geometric"]
  ELSE IF ValueError(seq)
  THEN [isValid |-> FALSE, error |-> ErrNotNumbers, ratio |-> Null, type |-> "geometric"]
  ELSE
    LET s == seq.items
    IN IF \E i \in 1..(Len(s) - 1) : s[i].n = 0
       THEN [isValid |-> FALSE, error |-> ErrZero, ratio |-> Null, type |-> "geometric"]
       ELSE
         LET firstRatio == Divide(s[2], s[1])
         IN IF \E i \in 3..Len(s) :
                 AbsGreaterThanTolerance(Minus(Divide(s[i], s[i - 1]), firstRatio))
            THEN [isValid |-> FALSE, error |-> ErrNotGeometric, ratio |-> Null,
                  type |-> "geometric"]
            ELSE [isValid |-> TRUE, ratio |-> firstRatio, error |-> NoError,
                  type |-> "geometric"]

(* One level of finite differences: row[i + 1] - row[i] *)
NextDifferences(row) ==
  IF Len(row) < 2 THEN <<>>
  ELSE [i \in 1..(Len(row) - 1) |-> Minus(row[i + 1], row[i])]

(* faulty variant: only the first two differences are compared *)
IsConstant_FirstPair(row) ==
  Len(row) < 2 \/ AbsLessThanTolerance(Minus(row[2], row[1]))

(* nextDifferences.every(diff => Math.abs(diff - firstDiff) < tolerance) *)
IsConstant(row) == \A i \in 1..Len(row) : AbsLessThanTolerance(Minus(row[i], row[1]))

(* array.slice(0, n) *)
SliceFirst(row, n) == IF Len(row) <= n THEN row ELSE SubSeq(row, 1, n)

MaxDegreeCap == 5
SliceLimit == 5

(* const maxDegree = Math.min(sequence.length - 2, 5) *)
MaxDegreeOf(len) == IF len - 2 < MaxDegreeCap THEN len - 2 ELSE MaxDegreeCap

(* the loop  for (let d = 0; d <= maxDegree; d++)  from the iteration d on *)
RECURSIVE PolynomialLoop(_, _, _)
PolynomialLoop(differences, d, maxDegree) ==
  IF d > maxDegree
  THEN [isValid |-> FALSE, error |-> ErrNoPolynomial, degree |-> Null, type |-> "polynomial"]
  ELSE
    LET nextDifferences == NextDifferences(differences)
    IN IF IsConstant(nextDifferences) /\ Len(nextDifferences) > 0
       THEN [isValid |-> TRUE, degree |-> IntNum(d + 1), error |-> NoError,
             type |-> "polynomial", differences |-> SliceFirst(differences, SliceLimit)]
       ELSE PolynomialLoop(nextDifferences, d + 1, maxDegree)

detectPolynomialSequence(seq) ==
  IF ShapeError(seq)
  THEN [isValid |-> FALSE, error |-> ErrTooShort, degree |-> Null, type |-> "polynomial"]
  ELSE IF ValueError(seq)
  THEN [isValid |-> FALSE, error |-> ErrNotNumbers, degree |-> Null, type |-> "polynomial"]
  ELSE PolynomialLoop(seq.items, 0, MaxDegreeOf(Len(seq.items)))

(* faulty variant: the geometric check is tried before the arithmetic one *)
detectPatternType_GeometricFirst(seq) ==
  LET arithmetic == validateArithmeticProgression(seq)
      geometric == validateGeometricProgression(seq)
      polynomial == detectPolynomialSequence(seq)
  IN IF geometric.isValid THEN geometric
     ELSE IF arithmetic.isValid THEN arithmetic
     ELSE IF polynomial.isValid THEN polynomial
     ELSE [type |-> "unknown", error |-> ErrNoPattern]

detectPatternType(seq) ==
  LET arithmetic == validateArithmeticProgression(seq)
      geometric == validateGeometricProgression(seq)
      polynomial == detectPolynomialSequence(seq)
  IN IF arithmetic.isValid THEN arithmetic
     ELSE IF geometric.isValid THEN geometric
     ELSE IF polynomial.isValid THEN polynomial
     ELSE [type |-> "unknown", error |-> ErrNoPattern]

----------------------------------------------------------------------------
(* Predictor *)

(* lastValue += diff; predictions.push(lastValue), predictCount times *)
RECURSIVE ArithmeticPredictions(_, _, _)
ArithmeticPredictions(lastValue, diff, count) ==
  IF count <= 0 THEN <<>>
  ELSE <<Plus(lastValue, diff)>> \o ArithmeticPredictions(Plus(lastValue, diff), diff, count - 1)

(* lastValue *= ratio; predictions.push(lastValue), predictCount times *)
RECURSIVE GeometricPredictions(_, _, _)
GeometricPredictions(lastValue, ratio, count) ==
  IF count <= 0 THEN <<>>
  ELSE <<Times(lastValue, ratio)>> \o GeometricPredictions(Times(lastValue, ratio), ratio, count - 1)

(* the difference table: rows 0..degree, as a sequence of degree + 1 rows *)
RECURSIVE DifferenceTable(_, _)
DifferenceTable(row, degree) ==
  IF degree <= 0 THEN <<row>>
  ELSE <<row>> \o DifferenceTable(NextDifferences(row), degree - 1)

Last(row) == row[Len(row)]

(* the value pushed onto row d when the rows are extended working backwards *)
RECURSIVE ExtendedLast(_, _, _)
ExtendedLast(table, d, degree) ==
  IF d = degree THEN Last(table[d + 1])
  ELSE Plus(Last(table[d + 1]), ExtendedLast(table, d + 1, degree))

(* the value pushed onto row 0 when the rows are extended *)
NextPolynomialValue(extendedSeq, degree) ==
  ExtendedLast(DifferenceTable(extendedSeq, degree), 0, degree)

(* differences = [extendedSeq]: row 0 of the table is the array extendedSeq *)
(* itself, not a copy, so differences[0].push(newValue) in the extension   *)
(* loop already appends newValue to extendedSeq                            *)
ExtendedRow0(extendedSeq, degree) ==
  Append(extendedSeq, NextPolynomialValue(extendedSeq, degree))

(* extendedSeq.push(differences[0][differences[0].length - 1]), where row 0 *)
(* is extendedSeq: its last element is appended once more                  *)
PushLast(row0) == Append(row0, Last(row0))

(* one round of the loop over pred *)
PolynomialRound(extendedSeq, degree) == PushLast(ExtendedRow0(extendedSeq, degree))

RECURSIVE ExtendSequence(_, _, _)
ExtendSequence(extendedSeq, degree, count) ==
  IF count <= 0 THEN extendedSeq
  ELSE ExtendSequence(PolynomialRound(extendedSeq, degree), degree, count - 1)

(* extendedSeq.slice(sequence.length) *)
SliceFrom(row, from) == IF Len(row) <= from THEN <<>> ELSE SubSeq(row, from + 1, Len(row))

predictPolynomialSequence(items, degree, count) ==
  SliceFrom(ExtendSequence(items, degree, count), Len(items))

(* faulty variant: lastValue is not advanced between predictions *)
arithmeticBranch_NoAccumulate(items, diff, count) ==
  [i \in 1..count |-> Plus(Last(items), diff)]

(* faulty variant: the ratio is added instead of multiplied *)
geometricBranch_Additive(items, ratio, count) ==
  ArithmeticPredictions(Last(items), ratio, count)

(* the arithmetic branch of predictNextNumber *)
arithmeticBranch(items, diff, count) == ArithmeticPredictions(Last(items), diff, count)

(* the geometric branch of predictNextNumber *)
geometricBranch(items, ratio, count) == GeometricPredictions(Last(items), ratio, count)

----------------------------------------------------------------------------
(* Logger, at its default level 'info': debug entries are dropped *)

LevelOf(level) == CASE level = "debug" -> 0 [] level = "info" -> 1
                    [] level = "warn" -> 2 [] OTHER -> 3

CurrentLevel == 1

Log(entries, level, message) ==
  IF LevelOf(level) >= CurrentLevel
  THEN Append(entries, [level |-> level, message |-> message])
  ELSE entries

----------------------------------------------------------------------------
(* HistoryStore and PerformanceMetrics *)

InitialMetrics ==
  [totalSequencesAnalyzed |-> 0,
   averageAnalysisTime |-> IntNum(0),
   longestSequenceLength |-> 0,
   patternDistribution |-> [arithmetic |-> 0, geometric |-> 0, polynomial |-> 0, unknown |-> 0]]

(* faulty variant: the longest length is overwritten by the latest one *)
updatePerformanceMetrics_LatestLength(metrics, sequenceLength, analysisTime, patternType) ==
  LET total == metrics.totalSequencesAnalyzed + 1
  IN [totalSequencesAnalyzed |-> total,
      averageAnalysisTime |->
        Divide(Plus(Times(metrics.averageAnalysisTime, IntNum(total - 1)), analysisTime),
               IntNum(total)),
      longestSequenceLength |-> sequenceLength,
      patternDistribution |->
        [metrics.patternDistribution EXCEPT ![patternType] = @ + 1]]

updatePerformanceMetrics(metrics, sequenceLength, analysisTime, patternType) ==
  LET total == metrics.totalSequencesAnalyzed + 1
  IN [totalSequencesAnalyzed |-> total,
      averageAnalysisTime |->
        Divide(Plus(Times(metrics.averageAnalysisTime, IntNum(total - 1)), analysisTime),
               IntNum(total)),
      longestSequenceLength |->
        IF metrics.longestSequenceLength > sequenceLength
        THEN metrics.longestSequenceLength ELSE sequenceLength,
      patternDistribution |->
        [metrics.patternDistribution EXCEPT ![patternType] = @ + 1]]

(* the predictions computed by predictNextNumber for a recognised pattern *)
PredictionsFor(seq, patternAnalysis, count) ==
  IF patternAnalysis.type = "arithmetic"
  THEN arithmeticBranch(seq.items, patternAnalysis.difference, count)
  ELSE IF patternAnalysis.type = "geometric"
  THEN geometricBranch(seq.items, patternAnalysis.ratio, count)
  ELSE IF patternAnalysis.type = "polynomial"
  THEN predictPolynomialSequence(seq.items, patternAnalysis.degree.n, count)
  ELSE <<>>

(* faulty variant: the Memory takes the counter's value before echoCount++ *)
MemoryOf_StaleId(id, seq, patternAnalysis, predictions, analysisTime) ==
  [echoId |-> id - 1,
   sequence |-> seq.items,
   predictions |-> predictions,
   pattern |-> patternAnalysis.type,
   patternDetails |-> [difference |-> OrNull(Get(patternAnalysis, "difference")),
                       ratio |-> OrNull(Get(patternAnalysis, "ratio")),
                       degree |-> OrNull(Get(patternAnalysis, "degree"))],
   analysisTimeMs |-> analysisTime]

(* the Memory built by predictNextNumber *)
MemoryOf(id, seq, patternAnalysis, predictions, analysisTime) ==
  [echoId |-> id,
   sequence |-> seq.items,
   predictions |-> predictions,
   pattern |-> patternAnalysis.type,
   patternDetails |-> [difference |-> OrNull(Get(patternAnalysis, "difference")),
                       ratio |-> OrNull(Get(patternAnalysis, "ratio")),
                       degree |-> OrNull(Get(patternAnalysis, "degree"))],
   analysisTimeMs |-> analysisTime]

(* predictions[0] *)
First(row) == IF Len(row) > 0 THEN row[1] ELSE Undefined

predictNextNumber(seq, count, analysisTime) ==
  /\ Len(logs) < MaxCalls
  /\ \E patternAnalysis \in {detectPatternType(seq)} :
     /\ sequence' = seq
     /\ predictCount' = count
     /\ lastOp' = "predictNextNumber"
     /\ IF patternAnalysis.type = "unknown"
        THEN /\ logs' = Log(logs, "warn", "Unknown pattern detected")
             /\ result' = [success |-> FALSE, error |-> patternAnalysis.error,
                           pattern |-> "unknown"]
             /\ UNCHANGED <<memories, echoCount, analysisHistory, performanceMetrics>>
        ELSE \E predictions \in {PredictionsFor(seq, patternAnalysis, count)} :
             \E memory \in {MemoryOf(echoCount + 1, seq, patternAnalysis, predictions,
                                     analysisTime)} :
                /\ echoCount' = echoCount + 1
                /\ memories' = Append(memories, memory)
                /\ performanceMetrics' =
                     updatePerformanceMetrics(performanceMetrics, Len(seq.items),
                                              analysisTime, patternAnalysis.type)
                /\ logs' = Log(logs, "info", "Prediction generated")
                /\ result' = [success |-> TRUE,
                              predictions |-> predictions,
                              nextNumber |-> First(predictions),
                              pattern |-> patternAnalysis.type,
                              patternDetails |-> patternAnalysis,
                              sequenceLength |-> Len(seq.items),
                              memory |-> memory]
                /\ UNCHANGED analysisHistory

(* faulty variant: the classification is counted in the metrics *)
DetectPatternType_Counting(seq) ==
  /\ sequence' = seq
  /\ result' = detectPatternType(seq)
  /\ lastOp' = "detectPatternType"
  /\ performanceMetrics' =
       updatePerformanceMetrics(performanceMetrics, 0, IntNum(0), result'.type)
  /\ UNCHANGED <<predictCount, memories, echoCount, analysisHistory, logs>>

(* a direct call of detectPatternType *)
DetectPatternType(seq) ==
  /\ sequence' = seq
  /\ result' = detectPatternType(seq)
  /\ lastOp' = "detectPatternType"
  /\ UNCHANGED <<predictCount, memories, echoCount, analysisHistory, performanceMetrics, logs>>

(* a direct call of detectPolynomialSequence *)
DetectPolynomialSequence(seq) ==
  /\ sequence' = seq
  /\ result' = detectPolynomialSequence(seq)
  /\ lastOp' = "detectPolynomialSequence"
  /\ UNCHANGED <<predictCount, memories, echoCount, analysisHistory, performanceMetrics, logs>>

(* faulty variant: the list is emptied but the id counter is kept *)
clearMemories_KeepCount ==
  /\ memories' = <<>>
  /\ echoCount' = echoCount
  /\ lastOp' = "clearMemories"
  /\ UNCHANGED <<analysisHistory, performanceMetrics, logs, sequence, predictCount, result>>

clearMemories ==
  /\ memories' = <<>>
  /\ echoCount' = 0
  /\ lastOp' = "clearMemories"
  /\ UNCHANGED <<analysisHistory, performanceMetrics, logs, sequence, predictCount, result>>

----------------------------------------------------------------------------
(* Inputs *)

Values == {IntNum(v) : v \in (0 - MaxNeg)..MaxVal}

NumberSequences == UNION {[1..n -> Values] : n \in 0..MaxLen}

MalformedLen == 3
MalformedSequences ==
  UNION {[1..n -> {IntNum(1), IntNum(3), Str, Null, NaN}] : n \in 1..MalformedLen}

IntSeq(ints) == [i \in 1..Len(ints) |-> IntNum(ints[i])]

Squares == IntSeq(<<1, 4, 9, 16, 25>>)
Cubes == IntSeq(<<1, 8, 27, 64, 125>>)
Fibonacci == IntSeq(<<1, 1, 2, 3, 5, 8>>)
Fibonacci7 == IntSeq(<<1, 1, 2, 3, 5, 8, 13>>)
Fibonacci8 == IntSeq(<<1, 1, 2, 3, 5, 8, 13, 21>>)

Samples ==
  {Squares, Cubes, Fibonacci, Fibonacci7, Fibonacci8,
   IntSeq(<<1, 4, 9, 16>>),
   IntSeq(<<1, 2, 3, 5>>),
   IntSeq(<<1, 2, 4, 7>>),
   IntSeq(<<2, 5, 10, 17, 26>>),
   IntSeq(<<1, 5, 11, 19, 29>>),
   IntSeq(<<-5, -3, -1, 1, 3>>),
   IntSeq(<<1, 2, 4, 8, 16>>),
   IntSeq(<<3, 6, 9, 12>>),
   IntSeq(<<2, 6, 18, 54>>),
   IntSeq(<<5, 5, 5, 5>>),
   IntSeq(<<1, -2, 4, -8, 16>>),
   IntSeq(<<32, 16, 8, 4, 2>>),
   IntSeq(<<8, -4, 2, -1>>),
   IntSeq(<<1, 2, 4, 8, 16, 31, 57>>),
   IntSeq(<<1, 2, 4, 8, 16, 32, 64, 128>>),
   IntSeq(<<0, 1, 0, 1, 0, 1, 0, 1, 0>>),
   <<Num(3, 2), IntNum(2), Num(5, 2), IntNum(3)>>,
   <<IntNum(9), IntNum(3), IntNum(1), Num(1, 3)>>}

Inputs ==
  {Array(items) : items \in NumberSequences \cup MalformedSequences \cup Samples}
    \cup {NotAnArray}

(* the sequences classified directly on a long-lived engine *)
DetectPool ==
  {Array(IntSeq(<<3, 6, 9, 12>>)),
   Array(Fibonacci8),
   Array(<<IntNum(1), Str, IntNum(3)>>)}

(* the sequences submitted to a long-lived engine *)
Pool ==
  {Array(IntSeq(<<3, 6, 9, 12>>)),
   Array(IntSeq(<<5, 5, 5, 5>>)),
   Array(IntSeq(<<4, 2, 1>>)),
   Array(IntSeq(<<1, 4, 9, 16, 25>>)),
   Array(Fibonacci8),
   Array(IntSeq(<<5>>)),
   Array(<<IntNum(1), Str, IntNum(3)>>),
   Array(<<IntNum(1), NaN, IntNum(3)>>),
   Array(<<IntNum(1), Null, IntNum(3)>>),
   NotAnArray}

Counts == 0..MaxCount
PoolCounts == {1, MaxCount}
Durations == {IntNum(t) : t \in 1..MaxTime}

NoResult == [success |-> FALSE, pattern |-> "none"]

----------------------------------------------------------------------------
(* The engine of version 2 (index.js): arithmetic progressions only, the   *)
(* differences compared exactly                                            *)

(* new EchoChamber() *)
EchoChamber_v2 == [memories |-> <<>>, echoCount |-> 0, result |-> NoResult]

validateArithmeticProgression_v2(seq) ==
  IF ShapeError(seq)
  THEN [isValid |-> FALSE, error |-> ErrTooShort, difference |-> Null]
  ELSE IF ValueError(seq)
  THEN [isValid |-> FALSE, error |-> ErrNotNumbers, difference |-> Null]
  ELSE
    LET s == seq.items
        firstDifference == Minus(s[2], s[1])
    IN IF \E i \in 3..Len(s) : Minus(s[i], s[i - 1]) # firstDifference
       THEN [isValid |-> FALSE, error |-> ErrNotArithmetic, difference |-> Null]
       ELSE [isValid |-> TRUE, difference |-> firstDifference, error |-> NoError]

(* the Memory stored by the v2 engine *)
MemoryOf_v2(id, seq, nextNumber, difference) ==
  [echoId |-> id, sequence |-> seq.items, nextNumber |-> nextNumber,
   difference |-> difference]

(* faulty variant: the Memory takes the counter before it is incremented *)
predictNextNumber_v2_StaleId(e, seq) ==
  LET validation == validateArithmeticProgression_v2(seq)
  IN IF ~validation.isValid
     THEN [e EXCEPT !.result = [success |-> FALSE, error |-> validation.error,
                                nextNumber |-> Null, difference |-> Null]]
     ELSE
       LET nextNumber == Plus(Last(seq.items), validation.difference)
           memory == MemoryOf_v2(e.echoCount, seq, nextNumber, validation.difference)
       IN [memories |-> Append(e.memories, memory),
           echoCount |-> e.echoCount + 1,
           result |-> [success |-> TRUE, nextNumber |-> nextNumber,
                       difference |-> validation.difference,
                       sequenceLength |-> Len(seq.items), memory |-> memory]]

(* the v2 engine e after e.predictNextNumber(seq); result is what the call *)
(* returned                                                                *)
predictNextNumber_v2(e, seq) ==
  LET validation == validateArithmeticProgression_v2(seq)
  IN IF ~validation.isValid
     THEN [e EXCEPT !.result = [success |-> FALSE, error |-> validation.error,
                                nextNumber |-> Null, difference |-> Null]]
     ELSE
       LET nextNumber == Plus(Last(seq.items), validation.difference)
           memory == MemoryOf_v2(e.echoCount + 1, seq, nextNumber, validation.difference)
       IN [memories |-> Append(e.memories, memory),
           echoCount |-> e.echoCount + 1,
           result |-> [success |-> TRUE, nextNumber |-> nextNumber,
                       difference |-> validation.difference,
                       sequenceLength |-> Len(seq.items), memory |-> memory]]

(* the v2 engine e after e.clearMemories() *)
clearMemories_v2(e) == [e EXCEPT !.memories = <<>>, !.echoCount = 0]

----------------------------------------------------------------------------
(* The engine in use: any series of calls on one instance *)

(* new EchoChamber() *)
FreshEngine ==
  [memories |-> <<>>, echoCount |-> 0, analysisHistory |-> <<>>,
   performanceMetrics |-> InitialMetrics, logs |-> <<>>]

(* a request that has not arrived yet *)
NoRequest == [stage |-> "none"]

ClientInit ==
  /\ handle = <<>>
  /\ imported = FreshEngine
  /\ requests = [r \in 1..MaxRequests |-> NoRequest]
  /\ argument = NotAnArray
  /\ sharing = {}
  /\ v2 = EchoChamber_v2

Init ==
  /\ ClientInit
  /\ memories = <<>>
  /\ echoCount = 0
  /\ analysisHistory = <<>>
  /\ performanceMetrics = InitialMetrics
  /\ logs = <<>>
  /\ sequence = NotAnArray
  /\ predictCount = 1
  /\ result = NoResult
  /\ lastOp = "none"

Next ==
  \/ /\ \E seq \in Pool, count \in PoolCounts, t \in Durations :
          predictNextNumber(seq, count, t)
     /\ UNCHANGED client
  \/ /\ \E seq \in DetectPool : DetectPatternType(seq)
     /\ UNCHANGED client
  \/ /\ clearMemories
     /\ UNCHANGED client

Spec == Init /\ [][Next]_vars

(* One call on a fresh engine, for every input of the bounded domain *)

FnInit ==
  /\ ClientInit
  /\ memories = <<>>
  /\ echoCount = 0
  /\ analysisHistory = <<>>
  /\ performanceMetrics = InitialMetrics
  /\ logs = <<>>
  /\ sequence \in Inputs
  /\ predictCount = 1
  /\ result = NoResult
  /\ lastOp = "none"

FnNext ==
  \/ /\ lastOp = "none"
     /\ \E count \in Counts, t \in Durations : predictNextNumber(sequence, count, t)
     /\ UNCHANGED client
  \/ /\ lastOp = "none"
     /\ DetectPatternType(sequence)
     /\ UNCHANGED client
  \/ /\ lastOp = "none"
     /\ DetectPolynomialSequence(sequence)
     /\ UNCHANGED client

FnSpec == FnInit /\ [][FnNext]_vars

----------------------------------------------------------------------------
(* The read side of the store, and what a caller can do with the values it *)
(* is handed                                                               *)

(* parseFloat(x.toFixed(2)) for x >= 0: the nearest multiple of 1/100, the *)
(* larger one on a tie                                                     *)
ToFixed2(x) == Num((200 * x.n + x.d) \div (2 * x.d), 100)

(* this.memories.reduce((sum, m) => sum + m.sequence.length, 0) *)
RECURSIVE SumOfLengths(_)
SumOfLengths(mem) ==
  IF mem = <<>> THEN 0
  ELSE Len(mem[Len(mem)].sequence) + SumOfLengths(SubSeq(mem, 1, Len(mem) - 1))

(* patterns[memory.pattern] = (patterns[memory.pattern] || 0) + 1 *)
PatternsOf(mem) ==
  [p \in {mem[i].pattern : i \in 1..Len(mem)} |->
     Cardinality({i \in 1..Len(mem) : mem[i].pattern = p})]

(* faulty variant: lastEcho is taken from the front of the list *)
Statistics_LastIsFirst(mem, metrics, entries) ==
  [totalEchoes |-> Len(mem),
   averageSequenceLength |->
     IF Len(mem) > 0 THEN ToFixed2(Num(SumOfLengths(mem), Len(mem))) ELSE IntNum(0),
   patternDistribution |-> PatternsOf(mem),
   performanceMetrics |-> metrics,
   firstEcho |-> IF Len(mem) > 0 THEN mem[1] ELSE Null,
   lastEcho |-> IF Len(mem) > 0 THEN mem[1] ELSE Null,
   logs |-> entries]

(* the object returned by getStatistics *)
Statistics(mem, metrics, entries) ==
  [totalEchoes |-> Len(mem),
   averageSequenceLength |->
     IF Len(mem) > 0 THEN ToFixed2(Num(SumOfLengths(mem), Len(mem))) ELSE IntNum(0),
   patternDistribution |-> PatternsOf(mem),
   performanceMetrics |-> metrics,
   firstEcho |-> IF Len(mem) > 0 THEN mem[1] ELSE Null,
   lastEcho |-> IF Len(mem) > 0 THEN mem[Len(mem)] ELSE Null,
   logs |-> entries]

(* faulty variant: reading the statistics counts as an analysis *)
getStatistics_Counting ==
  /\ result' = Statistics(memories, performanceMetrics, logs)
  /\ performanceMetrics' =
       [performanceMetrics EXCEPT !.totalSequencesAnalyzed = @ + 1]
  /\ lastOp' = "getStatistics"
  /\ UNCHANGED <<memories, echoCount, analysisHistory, logs, sequence, predictCount, client>>

getStatistics ==
  /\ result' = Statistics(memories, performanceMetrics, logs)
  /\ lastOp' = "getStatistics"
  /\ UNCHANGED <<engine, sequence, predictCount, client>>

(* [...this.memories]: a new array whose entries are the stored Memory     *)
(* objects themselves.  An entry of the handle is [at, obj]: obj holds the *)
(* object's fields, at is its position in this.memories, or 0 once the     *)
(* object is no longer (or never was) in the engine's list.                *)
ShallowCopy(mem) == [j \in 1..Len(mem) |-> [at |-> j, obj |-> mem[j]]]

getMemories ==
  /\ handle' = ShallowCopy(memories)
  /\ lastOp' = "getMemories"
  /\ UNCHANGED <<engine, sequence, predictCount, result, imported, v2, requests, argument, sharing>>

(* this.memories = [] drops the engine's references: the objects a caller  *)
(* still holds are no longer entries of the engine's list                  *)
Detached(h) == [j \in 1..Len(h) |-> [at |-> 0, obj |-> h[j].obj]]

Forged ==
  [echoId |-> 0, sequence |-> <<>>, predictions |-> <<>>, pattern |-> "forged",
   patternDetails |-> [difference |-> Null, ratio |-> Null, degree |-> Null],
   analysisTimeMs |-> IntNum(0)]

(* the caller pushes an object of its own onto the returned array *)
CallerPush ==
  /\ Len(handle) <= Len(memories)
  /\ handle' = Append(handle, [at |-> 0, obj |-> Forged])
  /\ lastOp' = "callerPush"
  /\ UNCHANGED <<engine, sequence, predictCount, result, imported, v2, requests, argument, sharing>>

(* the caller removes the last entry of the returned array *)
CallerPop ==
  /\ handle # <<>>
  /\ handle' = SubSeq(handle, 1, Len(handle) - 1)
  /\ lastOp' = "callerPop"
  /\ UNCHANGED <<engine, sequence, predictCount, result, imported, v2, requests, argument, sharing>>

(* the caller assigns a field of the i-th returned Memory: the object is   *)
(* the one the engine stores, unless it has been detached                  *)
CallerSetField(i) ==
  /\ i \in 1..Len(handle)
  /\ handle' = [handle EXCEPT ![i].obj.pattern = "forged"]
  /\ memories' = IF handle[i].at > 0
                 THEN [memories EXCEPT ![handle[i].at].pattern = "forged"]
                 ELSE memories
  /\ lastOp' = "callerSetField"
  /\ UNCHANGED <<echoCount, analysisHistory, performanceMetrics, logs,
                 sequence, predictCount, result, imported, v2, requests, argument, sharing>>

CallerOps == {"callerPush", "callerPop", "callerSetField"}

(* faulty variant: the array itself is used where a copy is taken *)
Spread_SameObject(array) == [object |-> "argument", items |-> array.items]

(* [...array]: a new array object holding the same elements; object names  *)
(* the array object, "argument" being the one the caller passed            *)
Spread(array) == [object |-> "copy", items |-> array.items]

(* the elements of the caller's array when predictNextNumber returns: only *)
(* predictPolynomialSequence pushes onto an array, extendedSeq, which it   *)
(* takes as [...sequence]                                                  *)
ArgumentAfter(seq, patternAnalysis, count) ==
  IF patternAnalysis.type = "polynomial" /\ Spread(seq).object = "argument"
  THEN [seq EXCEPT !.items = ExtendSequence(seq.items, patternAnalysis.degree.n, count)]
  ELSE seq

(* predictNextNumber called by a caller that keeps its array *)
Submit(seq, count, analysisTime) ==
  /\ predictNextNumber(seq, count, analysisTime)
  /\ argument' = ArgumentAfter(seq, detectPatternType(seq), count)
  /\ sharing' = IF result'.success /\ Spread(seq).object = "argument"
                THEN {Len(memories')} ELSE {}
  /\ UNCHANGED <<handle, imported, v2, requests>>

(* after the call the caller pushes a value onto the array it had passed *)
CallerPushesOntoArgument ==
  /\ lastOp = "predictNextNumber"
  /\ argument.isArray
  /\ argument' = [argument EXCEPT !.items = Append(@, IntNum(0))]
  /\ memories' = [j \in 1..Len(memories) |->
                    IF j \in sharing
                    THEN [memories[j] EXCEPT !.sequence = argument'.items]
                    ELSE memories[j]]
  /\ lastOp' = "callerPushesOntoArgument"
  /\ UNCHANGED <<echoCount, analysisHistory, performanceMetrics, logs,
                 sequence, predictCount, result, handle, imported, v2, requests, sharing>>

(* the sequences submitted by the caller that keeps what it passes and gets *)
ClientPool ==
  {Array(IntSeq(<<3, 6, 9, 12>>)),
   Array(IntSeq(<<4, 2, 1>>)),
   Array(IntSeq(<<1, 4, 9, 16>>)),
   Array(IntSeq(<<5>>))}

(* a caller that keeps the arrays it passes *)
CallerNext ==
  \/ \E seq \in ClientPool, count \in PoolCounts, t \in Durations : Submit(seq, count, t)
  \/ /\ clearMemories
     /\ sharing' = {}
     /\ UNCHANGED <<handle, imported, v2, requests, argument>>
  \/ CallerPushesOntoArgument
  \/ getStatistics

CallerSpec == Init /\ [][CallerNext]_vars

(* the sequences submitted by the caller that keeps the returned list *)
HandlePool ==
  {Array(IntSeq(<<3, 6, 9, 12>>)),
   Array(IntSeq(<<4, 2, 1>>)),
   Array(IntSeq(<<5>>))}

(* a caller that reads the engine between predictions and clears *)
ReaderNext ==
  \/ /\ \E seq \in HandlePool, t \in Durations : predictNextNumber(seq, 1, t)
     /\ UNCHANGED client
  \/ /\ clearMemories
     /\ handle' = Detached(handle)
     /\ UNCHANGED <<imported, v2, requests, argument, sharing>>
  \/ getStatistics
  \/ getMemories

ReaderSpec == Init /\ [][ReaderNext]_vars

(* a caller that keeps the list it is handed *)
ClientNext ==
  \/ /\ \E seq \in HandlePool, t \in Durations : predictNextNumber(seq, 1, t)
     /\ UNCHANGED client
  \/ /\ clearMemories
     /\ handle' = Detached(handle)
     /\ sharing' = {}
     /\ UNCHANGED <<imported, v2, requests, argument>>
  \/ getMemories
  \/ CallerPush
  \/ CallerPop
  \/ \E i \in 1..MaxCalls : CallerSetField(i)

ClientSpec == Init /\ [][ClientNext]_vars

----------------------------------------------------------------------------
(* Export and import: the caller exports the engine's data and imports it  *)
(* into a new engine (the export date is left out)                         *)

exportData ==
  [version |-> "3.0",
   memories |-> memories,
   statistics |-> Statistics(memories, performanceMetrics, logs),
   analysisHistory |-> analysisHistory]

(* data.memories || [] and data.analysisHistory || [] *)
OrEmpty(data, field) == IF field \in DOMAIN data THEN data[field] ELSE <<>>

(* data.version !== '3.0'; reading the version of null throws, which the   *)
(* same catch block handles                                                *)
Incompatible(data) == "version" \notin DOMAIN data \/ data.version # "3.0"

(* faulty variant: the data is taken over before its version is tested *)
importData_AssignFirst(e, data) ==
  IF Incompatible(data)
  THEN [e EXCEPT !.memories = OrEmpty(data, "memories"),
                 !.logs = Log(@, "error", "Import failed")]
  ELSE [e EXCEPT !.memories = OrEmpty(data, "memories"),
                 !.analysisHistory = OrEmpty(data, "analysisHistory"),
                 !.echoCount = Len(OrEmpty(data, "memories")),
                 !.logs = Log(@, "info", "Data imported successfully")]

(* the engine e after e.importData(data) *)
importData(e, data) ==
  IF Incompatible(data)
  THEN [e EXCEPT !.logs = Log(@, "error", "Import failed")]
  ELSE [e EXCEPT !.memories = OrEmpty(data, "memories"),
                 !.analysisHistory = OrEmpty(data, "analysisHistory"),
                 !.echoCount = Len(OrEmpty(data, "memories")),
                 !.logs = Log(@, "info", "Data imported successfully")]

(* the value returned by importData *)
importReturns(data) == ~Incompatible(data)

(* chamber3 = new EchoChamber(); chamber3.importData(chamber2.exportData()) *)
ExportImport ==
  /\ imported' = importData(FreshEngine, exportData)
  /\ result' = [success |-> importReturns(exportData), pattern |-> "none"]
  /\ lastOp' = "importData"
  /\ UNCHANGED <<engine, sequence, predictCount, handle, requests, v2, argument, sharing>>

(* the engine as one object *)
ThisEngine ==
  [memories |-> memories, echoCount |-> echoCount, analysisHistory |-> analysisHistory,
   performanceMetrics |-> performanceMetrics, logs |-> logs]

(* chamber.importData(data) on the engine in use; argument keeps the data  *)
(* the caller passed                                                       *)
ImportData(data) ==
  /\ Len(logs) < MaxCalls
  /\ \E e \in {importData(ThisEngine, data)} :
       /\ memories' = e.memories
       /\ echoCount' = e.echoCount
       /\ analysisHistory' = e.analysisHistory
       /\ performanceMetrics' = e.performanceMetrics
       /\ logs' = e.logs
  /\ result' = [success |-> importReturns(data), pattern |-> "none"]
  /\ argument' = data
  /\ lastOp' = "importData"
  /\ UNCHANGED <<sequence, predictCount, handle, imported, v2, requests, sharing>>

NullData == [isNull |-> TRUE]

(* the data handed to importData: of the right version with and without    *)
(* Memories, of another version, without a version, and null               *)
ImportPool ==
  {[version |-> "3.0", memories |-> <<Forged, Forged, Forged>>, analysisHistory |-> <<>>],
   [version |-> "3.0", memories |-> <<Forged>>],
   [version |-> "3.0"],
   [version |-> "2.0", memories |-> <<Forged, Forged>>, analysisHistory |-> <<>>],
   [version |-> "2.0"],
   [memories |-> <<Forged>>],
   NullData}

ImportNext ==
  \/ /\ \E seq \in HandlePool, t \in Durations : predictNextNumber(seq, 1, t)
     /\ UNCHANGED client
  \/ /\ clearMemories
     /\ UNCHANGED client
  \/ \E data \in ImportPool : ImportData(data)

ImportSpec == Init /\ [][ImportNext]_vars

(* the same call on an engine of each version *)
PredictOnBoth(seq, analysisTime) ==
  /\ predictNextNumber(seq, 1, analysisTime)
  /\ v2' = predictNextNumber_v2(v2, seq)
  /\ UNCHANGED <<handle, imported, requests, argument, sharing>>

ClearBoth ==
  /\ clearMemories
  /\ v2' = clearMemories_v2(v2)
  /\ UNCHANGED <<handle, imported, requests, argument, sharing>>

(* the sequences given first to both engines: the integer sequences up to  *)
(* MaxLen, sequences v3 classifies as geometric, polynomial and unknown,   *)
(* and malformed ones                                                      *)
VersionInputs ==
  {Array(items) : items \in NumberSequences}
    \cup {Array(IntSeq(<<2, 6, 18, 54>>)), Array(Squares), Array(Fibonacci8),
          Array(IntSeq(<<3, 6, 9, 12>>)), Array(IntSeq(<<5, 5, 5, 5>>)),
          Array(<<IntNum(1), Str, IntNum(3)>>), Array(<<IntNum(1), NaN, IntNum(3)>>),
          Array(<<IntNum(1), Null, IntNum(3)>>), NotAnArray}

(* the sequences of the calls that follow *)
VersionsPool ==
  {Array(IntSeq(<<3, 6, 9, 12>>)),
   Array(IntSeq(<<5, 5>>)),
   Array(IntSeq(<<5>>)),
   Array(<<IntNum(1), Str, IntNum(3)>>)}

VersionsInit ==
  /\ ClientInit
  /\ memories = <<>>
  /\ echoCount = 0
  /\ analysisHistory = <<>>
  /\ performanceMetrics = InitialMetrics
  /\ logs = <<>>
  /\ sequence \in VersionInputs
  /\ predictCount = 1
  /\ result = NoResult
  /\ lastOp = "none"

VersionsNext ==
  \/ /\ lastOp = "none"
     /\ \E t \in Durations : PredictOnBoth(sequence, t)
  \/ /\ lastOp # "none"
     /\ \E seq \in VersionsPool, t \in Durations : PredictOnBoth(seq, t)
  \/ /\ lastOp # "none"
     /\ ClearBoth

VersionsSpec == VersionsInit /\ [][VersionsNext]_vars

TransferNext ==
  \/ /\ \E seq \in Pool, count \in PoolCounts, t \in Durations :
          predictNextNumber(seq, count, t)
     /\ UNCHANGED client
  \/ /\ clearMemories
     /\ UNCHANGED client
  \/ ExportImport

TransferSpec == Init /\ [][TransferNext]_vars

----------------------------------------------------------------------------
(* The HTTP server (web-demo.js) in front of one engine.  A request is     *)
(*   [stage |-> "none"]                        not arrived                 *)
(*   [stage |-> "reading", route, body]        its handler awaits the body *)
(*   [stage |-> "done", route, body, status, answer]   response sent       *)
(* handlePredict and handleValidate suspend once, at await parseJsonBody;  *)
(* what follows the await runs without yielding, as do handleMemories and  *)
(* handleClear, which read no body.  The server's own logger is left out.  *)

(* bodies as sent: valid says whether JSON.parse accepts the text *)
InvalidJson == [valid |-> FALSE]
Body(seq, count) == [valid |-> TRUE, sequence |-> seq, predictCount |-> count]

PredictBodies ==
  {Body(Array(IntSeq(<<3, 6, 9, 12>>)), IntNum(MaxCount)),
   Body(Array(Fibonacci8), Undefined),
   Body(Array(<<>>), Undefined),
   InvalidJson}

ValidateBodies ==
  {Body(Array(IntSeq(<<3, 6, 9, 12>>)), Undefined),
   Body(NotAnArray, Undefined)}

(* the analysis time measured inside a request *)
ServerDuration == IntNum(1)

(* !Array.isArray(sequence) || sequence.length === 0, or parseJsonBody rejected *)
BadBody(body) ==
  \/ ~body.valid
  \/ ~body.sequence.isArray
  \/ Len(body.sequence.items) = 0

(* Math.min(predictCount || 1, 10) for an absent or integer predictCount *)
CountOf(count) ==
  IF count.k # "num" \/ count.n = 0 THEN 1
  ELSE IF count.n < 10 THEN count.n ELSE 10

Arrived(r) == requests[r].stage # "none"

(* requests arrive in the order of their numbers *)
NextToArrive(r) ==
  /\ ~Arrived(r)
  /\ \A q \in 1..(r - 1) : Arrived(q)

PredictRequests == {r \in 1..MaxRequests : Arrived(r) /\ requests[r].route = "predict"}

(* sendJson(res, status, data) *)
sendJson(r, route, body, status, data) ==
  requests' = [requests EXCEPT ![r] = [stage |-> "done", route |-> route, body |-> body,
                                       status |-> status, answer |-> data]]

(* handleRequest routes a POST /api/predict or /api/validate: the handler  *)
(* starts and waits for the body                                           *)
handleRequest(r, route, body) ==
  /\ NextToArrive(r)
  /\ route = "predict" => Cardinality(PredictRequests) < MaxCalls
  /\ requests' = [requests EXCEPT ![r] = [stage |-> "reading", route |-> route,
                                          body |-> body]]
  /\ lastOp' = "handleRequest"
  /\ UNCHANGED <<engine, sequence, predictCount, result, handle, imported, v2, argument, sharing>>

(* the rest of handlePredict, once the body has been read *)
handlePredict(r) ==
  /\ requests[r].stage = "reading"
  /\ requests[r].route = "predict"
  /\ \E body \in {requests[r].body} :
       IF BadBody(body)
       THEN /\ sendJson(r, "predict", body, 400, [success |-> FALSE, pattern |-> "none"])
            /\ lastOp' = "handlePredict"
            /\ UNCHANGED <<engine, sequence, predictCount, result>>
       ELSE /\ predictNextNumber(body.sequence, CountOf(body.predictCount), ServerDuration)
            /\ sendJson(r, "predict", body, 200, result')
  /\ UNCHANGED <<handle, imported, v2, argument, sharing>>

(* the rest of handleValidate, once the body has been read *)
handleValidate(r) ==
  /\ requests[r].stage = "reading"
  /\ requests[r].route = "validate"
  /\ \E body \in {requests[r].body} :
       IF BadBody(body)
       THEN /\ sendJson(r, "validate", body, 400, [type |-> "none"])
            /\ lastOp' = "handleValidate"
            /\ UNCHANGED <<engine, sequence, predictCount, result>>
       ELSE /\ DetectPatternType(body.sequence)
            /\ sendJson(r, "validate", body, 200, result')
  /\ UNCHANGED <<handle, imported, v2, argument, sharing>>

(* GET /api/memories; limit is larger than any list of the model *)
handleMemories(r) ==
  /\ NextToArrive(r)
  /\ sendJson(r, "memories", InvalidJson, 200,
              [total |-> Len(memories), returned |-> Len(memories), memories |-> memories])
  /\ lastOp' = "handleMemories"
  /\ UNCHANGED <<engine, sequence, predictCount, result, handle, imported, v2, argument, sharing>>

(* faulty variant: a clear that lands inside a prediction in flight, after *)
(* that prediction has taken its id                                        *)
handleClear_Torn(r) ==
  /\ NextToArrive(r)
  /\ memories' = <<>>
  /\ echoCount' = IF \E q \in PredictRequests : requests[q].stage = "reading"
                  THEN 1 ELSE 0
  /\ lastOp' = "clearMemories"
  /\ sendJson(r, "clear", InvalidJson, 200, [success |-> TRUE])
  /\ UNCHANGED <<analysisHistory, performanceMetrics, logs, sequence, predictCount, result,
                 handle, imported, v2, argument, sharing>>

(* POST /api/clear *)
handleClear(r) ==
  /\ NextToArrive(r)
  /\ clearMemories
  /\ sendJson(r, "clear", InvalidJson, 200, [success |-> TRUE])
  /\ UNCHANGED <<handle, imported, v2, argument, sharing>>

ServerNext ==
  \/ \E r \in 1..MaxRequests, body \in PredictBodies : handleRequest(r, "predict", body)
  \/ \E r \in 1..MaxRequests, body \in ValidateBodies : handleRequest(r, "validate", body)
  \/ \E r \in 1..MaxRequests : handlePredict(r)
  \/ \E r \in 1..MaxRequests : handleValidate(r)
  \/ \E r \in 1..MaxRequests : handleMemories(r)
  \/ \E r \in 1..MaxRequests : handleClear(r)

ServerSpec == Init /\ [][ServerNext]_vars

(* One POST /api/predict, for every body of a bounded domain: predictCount *)
(* absent, or an integer from below zero to above the limit                *)
CountLimit == 10

RequestCounts == {Undefined} \cup {IntNum(n) : n \in (0 - MaxNeg)..(CountLimit + 2)}

RequestSequences ==
  {Array(IntSeq(<<3, 6, 9, 12>>)),
   Array(IntSeq(<<5, 5, 5, 5>>)),
   Array(IntSeq(<<4, 2, 1>>)),
   Array(IntSeq(<<1, 4, 9, 16>>)),
   Array(Fibonacci8),
   Array(<<>>),
   NotAnArray}

RequestBodies ==
  {Body(seq, count) : seq \in RequestSequences, count \in RequestCounts} \cup {InvalidJson}

RequestNext ==
  \/ \E body \in RequestBodies : handleRequest(1, "predict", body)
  \/ handlePredict(1)

RequestSpec == Init /\ [][RequestNext]_vars

----------------------------------------------------------------------------
(* Vocabulary of the properties, defined without the engine's operators *)

WellFormed(seq) ==
  /\ seq.isArray
  /\ Len(seq.items) >= 2
  /\ \A i \in 1..Len(seq.items) : seq.items[i].k = "num"

Malformed(seq) ==
  \/ ~seq.isArray
  \/ Len(seq.items) < 2
  \/ \E i \in 1..Len(seq.items) : seq.items[i].k # "num"

(* the k-th forward difference of s at position i *)
RECURSIVE Delta(_, _, _)
Delta(s, k, i) ==
  IF k = 0 THEN s[i] ELSE Minus(Delta(s, k - 1, i + 1), Delta(s, k - 1, i))

(* the k-th finite differences of s are all equal *)
KthDifferencesEqual(s, k) ==
  \A i \in 1..(Len(s) - k) : Delta(s, k, i) = Delta(s, k, 1)

AllDifferencesEqual(s, d) == \A i \in 1..(Len(s) - 1) : Minus(s[i + 1], s[i]) = d

NoZeroBeforeLast(s) == \A i \in 1..(Len(s) - 1) : s[i].n # 0

AllRatiosEqual(s, r) ==
  \A i \in 1..(Len(s) - 1) : s[i + 1] = Times(s[i], r)

RECURSIVE Power(_, _)
Power(r, i) == IF i = 0 THEN IntNum(1) ELSE Times(r, Power(r, i - 1))

Min(a, b) == IF a < b THEN a ELSE b

Classified == lastOp \in {"detectPatternType", "predictNextNumber"}

(* the pattern name reported by the last classification or prediction *)
ReportedPattern == IF lastOp = "predictNextNumber" THEN result.pattern ELSE result.type

----------------------------------------------------------------------------
(* C1: detectPatternType follows a fixed priority order: 'arithmetic'      *)
(* whenever the arithmetic check accepts (so for every constant sequence   *)
(* and every well-formed sequence of length 2), 'geometric' only when the  *)
(* arithmetic check fails and the geometric one accepts, 'polynomial' only *)
(* when both fail and the polynomial check accepts, 'unknown' only when    *)
(* all three fail.                                                         *)
PriorityOrder ==
  lastOp = "detectPatternType" =>
    LET a == validateArithmeticProgression(sequence).isValid
        g == validateGeometricProgression(sequence).isValid
        p == detectPolynomialSequence(sequence).isValid
    IN /\ a => result.type = "arithmetic"
       /\ result.type = "geometric" <=> (~a /\ g)
       /\ result.type = "polynomial" <=> (~a /\ ~g /\ p)
       /\ result.type = "unknown" <=> (~a /\ ~g /\ ~p)
       /\ result.type \in {"arithmetic", "geometric", "polynomial", "unknown"}
       /\ (WellFormed(sequence) /\ Len(sequence.items) = 2) => result.type = "arithmetic"
       /\ (WellFormed(sequence) /\ \A i \in 1..Len(sequence.items) :
                                      sequence.items[i] = sequence.items[1])
            => result.type = "arithmetic"

(* a non-zero constant sequence, accepted by both checks, is reported arithmetic *)
PriorityOrderWitness ==
  /\ lastOp = "detectPatternType"
  /\ Len(sequence.items) >= 3
  /\ validateGeometricProgression(sequence).isValid
  /\ validateArithmeticProgression(sequence).isValid
  /\ result.type = "arithmetic"

(* C2: a sequence of length >= 2 whose adjacent differences all equal d is *)
(* predicted as 'arithmetic' with difference d and predictions last + d,   *)
(* last + 2d, ..., last + k*d.                                             *)
ArithmeticPrediction ==
  (lastOp = "predictNextNumber" /\ WellFormed(sequence)) =>
    LET s == sequence.items
        d == Minus(s[2], s[1])
    IN AllDifferencesEqual(s, d) =>
         /\ result.success
         /\ result.pattern = "arithmetic"
         /\ result.patternDetails.difference = d
         /\ Len(result.predictions) = predictCount
         /\ \A i \in 1..predictCount :
              result.predictions[i] = Plus(Last(s), Times(IntNum(i), d))

ArithmeticPredictionWitness ==
  /\ lastOp = "predictNextNumber"
  /\ WellFormed(sequence)
  /\ Len(sequence.items) >= 3
  /\ AllDifferencesEqual(sequence.items, IntNum(-2))
  /\ predictCount >= 2
  /\ result.success
  /\ result.predictions[2] = Plus(Last(sequence.items), IntNum(-4))

(* C3: a sequence of length >= 2 that is not arithmetic, has no zero       *)
(* before its last position and whose adjacent ratios all equal r is       *)
(* predicted as 'geometric' with ratio r and predictions last*r, ...,      *)
(* last*r^k; a sequence with a zero before its last position is never      *)
(* classified geometric.                                                   *)
GeometricPrediction ==
  /\ (lastOp = "predictNextNumber" /\ WellFormed(sequence)) =>
       LET s == sequence.items
       IN (/\ ~AllDifferencesEqual(s, Minus(s[2], s[1]))
           /\ NoZeroBeforeLast(s)
           /\ AllRatiosEqual(s, Divide(s[2], s[1]))) =>
            /\ result.success
            /\ result.pattern = "geometric"
            /\ result.patternDetails.ratio = Divide(s[2], s[1])
            /\ Len(result.predictions) = predictCount
            /\ \A i \in 1..predictCount :
                 result.predictions[i] = Times(Last(s), Power(Divide(s[2], s[1]), i))
  /\ (Classified /\ WellFormed(sequence) /\ ~NoZeroBeforeLast(sequence.items)) =>
       ReportedPattern # "geometric"

(* a negative, fractional ratio *)
GeometricPredictionWitness ==
  /\ lastOp = "predictNextNumber"
  /\ result.success
  /\ result.pattern = "geometric"
  /\ result.patternDetails.ratio = Num(-1, 2)
  /\ predictCount >= 2
  /\ result.predictions[2] = Times(Last(sequence.items), Num(1, 4))

(* C4: the predictions for a sequence classified polynomial of degree d    *)
(* are the Newton forward-difference extrapolation: the d-th differences   *)
(* of the sequence followed by its predictions continue the d-th           *)
(* difference row unchanged; [1,4,9,16,25] yields [36] and [36,49].        *)
PolynomialPrediction ==
  (lastOp = "predictNextNumber" /\ result.success /\ result.pattern = "polynomial") =>
    LET s == sequence.items
        d == result.patternDetails.degree.n
        ext == s \o result.predictions
    IN /\ Len(result.predictions) = predictCount
       /\ \A i \in (Len(s) - d)..(Len(ext) - d) : Delta(ext, d, i) = Delta(s, d, Len(s) - d)
       /\ (sequence.items = Squares /\ predictCount = 1) =>
            result.predictions = <<IntNum(36)>>
       /\ (sequence.items = Squares /\ predictCount = 2) =>
            result.predictions = <<IntNum(36), IntNum(49)>>

(* C5: a successful predictNextNumber(sequence, predictCount) with         *)
(* predictCount >= 1 returns exactly predictCount predictions, nextNumber  *)
(* is the first of them, and the stored Memory holds the same list.        *)
PredictionCount ==
  (lastOp = "predictNextNumber" /\ result.success /\ predictCount >= 1) =>
    /\ Len(result.predictions) = predictCount
    /\ result.nextNumber = result.predictions[1]
    /\ Len(memories) >= 1
    /\ Last(memories).predictions = result.predictions
    /\ result.memory = Last(memories)

(* C6: the degree reported by detectPolynomialSequence is the smallest     *)
(* k >= 1 for which the k-th finite differences are all equal: 2 for       *)
(* [1,4,9,16] and [1,4,9,16,25], 3 for [1,8,27,64,125].                    *)
DegreeIsMinimal ==
  (lastOp = "detectPolynomialSequence" /\ result.isValid) =>
    LET s == sequence.items
        k == result.degree.n
    IN /\ result.degree.k = "num" /\ result.degree.d = 1
       /\ k >= 1
       /\ KthDifferencesEqual(s, k)
       /\ \A j \in 1..(k - 1) : ~KthDifferencesEqual(s, j)
       /\ s = Squares => k = 2
       /\ s = IntSeq(<<1, 4, 9, 16>>) => k = 2
       /\ s = Cubes => k = 3

DegreeIsMinimalWitness ==
  /\ lastOp = "detectPolynomialSequence"
  /\ sequence.items = Cubes
  /\ result.isValid
  /\ result.degree = IntNum(3)

(* C7: a polynomial result for a sequence of length L reports a degree     *)
(* between 1 and min(L - 2, 5).                                            *)
DegreeWithinCap ==
  (/\ lastOp \in {"detectPolynomialSequence", "detectPatternType"}
   /\ result.type = "polynomial"
   /\ Get(result, "isValid") = TRUE) =>
    /\ result.degree.n >= 1
    /\ result.degree.n <= Min(Len(sequence.items) - 2, MaxDegreeCap)

(* C8: [1,1,2,3,5,8] is classified 'unknown': predictNextNumber fails with *)
(* pattern 'unknown' and stores no Memory.                                 *)
FibonacciUnknown ==
  (Classified /\ sequence = Array(Fibonacci)) =>
    /\ ReportedPattern = "unknown"
    /\ lastOp = "predictNextNumber" => (~result.success /\ memories = <<>>)

(* C9: malformed input is reported with its specific reason: fewer than 2  *)
(* elements, or an element that is not a valid number; both differ from    *)
(* the reason given for a well-formed sequence matching no pattern.        *)
SpecificReasons ==
  Classified =>
    /\ (sequence.isArray /\ Len(sequence.items) < 2) => result.error = ErrTooShort
    /\ (sequence.isArray /\ Len(sequence.items) >= 2 /\ Malformed(sequence)) =>
         result.error = ErrNotNumbers
    /\ (WellFormed(sequence) /\ ReportedPattern = "unknown") =>
         result.error \notin {ErrTooShort, ErrNotNumbers}

(* C10: predictNextNumber on malformed input returns success = false,      *)
(* appends no Memory and leaves the id counter unchanged.                  *)
MalformedRejected ==
  [][(lastOp' = "predictNextNumber" /\ Malformed(sequence')) =>
       /\ result'.success = FALSE
       /\ memories' = memories
       /\ echoCount' = echoCount]_vars

MalformedRejectedWitness ==
  /\ lastOp = "predictNextNumber"
  /\ Malformed(sequence)
  /\ ~result.success
  /\ Len(memories) >= 1
  /\ echoCount = Len(memories)

(* C11: performanceMetrics is updated on every classification attempt made *)
(* through predictNextNumber: a successful attempt increments the bucket   *)
(* of its pattern, a failed attempt (unknown pattern or malformed input)   *)
(* increments the 'unknown' bucket of patternDistribution by one while     *)
(* creating no Memory.                                                     *)
MetricsOnEveryAttempt ==
  [][lastOp' = "predictNextNumber" =>
       IF result'.success
       THEN performanceMetrics'.patternDistribution[result'.pattern] =
              performanceMetrics.patternDistribution[result'.pattern] + 1
       ELSE /\ performanceMetrics'.patternDistribution.unknown =
                 performanceMetrics.patternDistribution.unknown + 1
            /\ memories' = memories]_vars

(* C12: in every state reached by predictNextNumber and clearMemories      *)
(* calls the stored Memories carry the ids 1..n in insertion order, n is   *)
(* the id counter, and each successful prediction appends exactly one      *)
(* Memory (with the next id) while every other call but clearMemories      *)
(* leaves the list alone.                                                  *)
SequentialIds ==
  /\ [](/\ echoCount = Len(memories)
        /\ \A i \in 1..Len(memories) : memories[i].echoId = i)
  /\ [][IF lastOp' = "predictNextNumber" /\ result'.success
         THEN /\ memories' = Append(memories, result'.memory)
              /\ result'.memory.echoId = Len(memories) + 1
         ELSE memories' = memories \/ lastOp' = "clearMemories"]_vars

SequentialIdsWitness ==
  /\ lastOp = "predictNextNumber"
  /\ result.success
  /\ Len(memories) = MaxCalls
  /\ memories[MaxCalls].echoId = MaxCalls
  /\ memories[1].echoId = 1

(* C13: clearMemories leaves an empty list, and the list stays empty until *)
(* the next successful predictNextNumber, whose Memory has id 1, however   *)
(* many Memories were stored before the clear.                             *)
ClearRestartsIds ==
  [][/\ (lastOp' = "clearMemories") => (memories' = <<>>)
     /\ (memories = <<>> /\ memories' # <<>>) =>
          (/\ lastOp' = "predictNextNumber"
           /\ result'.success
           /\ memories' = <<result'.memory>>
           /\ result'.memory.echoId = 1)]_vars

(* a successful prediction, a clear, and a second successful prediction *)
ClearRestartsIdsWitness ==
  /\ lastOp = "predictNextNumber"
  /\ result.success
  /\ performanceMetrics.totalSequencesAnalyzed >= 2
  /\ Len(memories) = 1
  /\ memories[1].echoId = 1

(* the value a getStatistics call would report in the current state *)
StatisticsReport == Statistics(memories, performanceMetrics, logs)

(* C14: getMemories hands out the stored Memories oldest-first, and        *)
(* nothing the caller does through the returned value (adding or removing  *)
(* entries, assigning a field of a returned Memory) changes what a later   *)
(* getMemories or getStatistics reports.                                   *)
DefensiveCopy ==
  [][/\ (lastOp' = "getMemories") =>
          (/\ memories' = memories
           /\ Len(handle') = Len(memories)
           /\ \A j \in 1..Len(memories) : handle'[j].obj = memories[j])
     /\ (lastOp' \in CallerOps) =>
          (/\ memories' = memories
           /\ StatisticsReport' = StatisticsReport)]_vars

(* C15: getStatistics on an engine driven through its own operations       *)
(* always returns a report: with no stored Memory totalEchoes is 0 and     *)
(* firstEcho and lastEcho are null, otherwise totalEchoes is the number of *)
(* stored Memories and firstEcho / lastEcho are the oldest and the newest. *)
StatisticsEnds ==
  lastOp = "getStatistics" =>
    /\ result.totalEchoes = Len(memories)
    /\ memories = <<>> =>
         (result.totalEchoes = 0 /\ result.firstEcho = Null /\ result.lastEcho = Null)
    /\ memories # <<>> =>
         (/\ result.firstEcho = memories[1]
          /\ result.lastEcho = memories[Len(memories)])

StatisticsEndsWitness ==
  /\ lastOp = "getStatistics"
  /\ result.totalEchoes = MaxCalls
  /\ result.firstEcho.echoId = 1
  /\ result.lastEcho.echoId = MaxCalls

(* C16: importing what the engine exports into a fresh engine reproduces   *)
(* an equivalent store: the same number of Memories with the same ids, the *)
(* same next id, the same pattern distribution and the same performance    *)
(* metrics.                                                                *)
RoundTrip ==
  lastOp = "importData" =>
    /\ result.success
    /\ Len(imported.memories) = Len(memories)
    /\ \A i \in 1..Len(memories) : imported.memories[i].echoId = memories[i].echoId
    /\ imported.echoCount = echoCount
    /\ PatternsOf(imported.memories) = PatternsOf(memories)
    /\ imported.performanceMetrics = performanceMetrics

(* the POST /api/predict requests that have been answered *)
AnsweredPredicts ==
  {r \in 1..MaxRequests : requests[r].stage = "done" /\ requests[r].route = "predict"}

(* C17: POST /api/predict answers 400 whenever the engine's result is      *)
(* unsuccessful (a well-formed sequence with no recognised pattern         *)
(* included) and 200 only when the prediction succeeded.                   *)
PredictStatus ==
  \A r \in AnsweredPredicts :
    /\ requests[r].status \in {200, 400}
    /\ requests[r].answer.success = FALSE => requests[r].status = 400
    /\ requests[r].status = 200 => requests[r].answer.success = TRUE

(* the POST /api/validate requests that have been answered with an analysis *)
AnsweredValidates ==
  {r \in 1..MaxRequests : /\ requests[r].stage = "done"
                          /\ requests[r].route = "validate"
                          /\ requests[r].status = 200}

(* C18: classification alone is pure: a detectPatternType call, as made by *)
(* POST /api/validate, leaves the Memory list, the id counter and the      *)
(* performance metrics unchanged, and the same sequence classified twice,  *)
(* whatever happened in between, gets the same analysis.                   *)
ClassificationIsPure ==
  /\ [][(lastOp' = "detectPatternType") =>
          (/\ memories' = memories
           /\ echoCount' = echoCount
           /\ performanceMetrics' = performanceMetrics)]_vars
  /\ [](\A r, q \in AnsweredValidates :
          requests[r].body.sequence = requests[q].body.sequence =>
            requests[r].answer = requests[q].answer)

(* the same sequence validated before and after a successful prediction *)
ClassificationIsPureWitness ==
  /\ lastOp = "detectPatternType"
  /\ Len(memories) >= 1
  /\ \E r, q \in AnsweredValidates :
       /\ r < q
       /\ requests[r].body = requests[q].body
       /\ \E p \in AnsweredPredicts : r < p /\ p < q /\ requests[p].answer.success

(* C20: with several requests in flight, in any interleaving of POST       *)
(* /api/predict, POST /api/clear and GET /api/memories, every engine       *)
(* operation runs as one step: after every step the id counter equals the  *)
(* number of stored Memories, the ids are 1..n, a successful prediction    *)
(* has appended exactly its Memory and only a clear removes Memories.      *)
AtomicEngineOperations ==
  /\ [](/\ echoCount = Len(memories)
        /\ \A i \in 1..Len(memories) : memories[i].echoId = i)
  /\ [][IF lastOp' = "predictNextNumber" /\ result'.success
         THEN memories' = Append(memories, result'.memory)
         ELSE memories' = memories \/ (lastOp' = "clearMemories" /\ memories' = <<>>)]_vars

(* a prediction stored while another prediction request is still waiting   *)
(* for its body, after a clear that arrived while both were in flight      *)
AtomicEngineOperationsWitness ==
  /\ lastOp = "predictNextNumber"
  /\ result.success
  /\ Len(memories) = 1
  /\ \E r, q, c \in 1..MaxRequests :
       /\ r < q /\ q < c
       /\ requests[r].stage = "reading" /\ requests[r].route = "predict"
       /\ requests[q].stage = "done" /\ requests[q].route = "predict"
       /\ requests[c].stage = "done" /\ requests[c].route = "clear"

(* C19: predictNextNumber leaves the caller's array as it was passed, for  *)
(* every pattern type and prediction count, and the stored Memory holds a  *)
(* copy of it: a later change of the caller's array does not change the    *)
(* sequence of any stored Memory.                                          *)
CallerSequenceUntouched ==
  [][/\ (lastOp' = "predictNextNumber") =>
          (/\ argument' = sequence'
           /\ result'.success => memories'[Len(memories')].sequence = sequence'.items)
     /\ (lastOp' = "callerPushesOntoArgument") =>
          (/\ argument' # argument
           /\ memories' = memories)]_vars

(* the caller changed its array after a polynomial prediction of several   *)
(* values was stored                                                       *)
CallerSequenceUntouchedWitness ==
  /\ lastOp = "callerPushesOntoArgument"
  /\ result.success
  /\ result.pattern = "polynomial"
  /\ predictCount = MaxCount
  /\ memories[Len(memories)].sequence = sequence.items
  /\ argument.items # sequence.items

(* C21: for every POST /api/predict body the prediction count handed to    *)
(* the engine is between 1 and 10 (1 when predictCount is absent, 10 when  *)
(* it is larger), and every successful response carries at least 1 and at  *)
(* most 10 predictions.                                                    *)
CountWithinLimits ==
  \A r \in AnsweredPredicts :
    requests[r].status = 200 =>
      /\ predictCount >= 1
      /\ predictCount <= CountLimit
      /\ requests[r].body.predictCount = Undefined => predictCount = 1
      /\ (requests[r].body.predictCount.k = "num"
            /\ requests[r].body.predictCount.n > CountLimit) => predictCount = CountLimit
      /\ requests[r].answer.success =>
           (/\ Len(requests[r].answer.predictions) >= 1
            /\ Len(requests[r].answer.predictions) <= CountLimit)

(* the successful predictions since the engine was constructed, counted in *)
(* its log, which no operation of the engine empties                       *)
SuccessfulPredictions ==
  Cardinality({i \in 1..Len(logs) : logs[i].message = "Prediction generated"})

(* C22: the performance metrics are lifetime aggregates:                   *)
(* totalSequencesAnalyzed is the number of successful predictions since    *)
(* construction and the sum of the per-pattern counters, clearMemories     *)
(* resets nothing, and longestSequenceLength is the length of the longest  *)
(* successfully analysed sequence.                                         *)
LifetimeMetrics ==
  /\ [](/\ performanceMetrics.totalSequencesAnalyzed = SuccessfulPredictions
        /\ performanceMetrics.totalSequencesAnalyzed =
             performanceMetrics.patternDistribution.arithmetic
             + performanceMetrics.patternDistribution.geometric
             + performanceMetrics.patternDistribution.polynomial
             + performanceMetrics.patternDistribution.unknown)
  /\ [][IF lastOp' = "predictNextNumber" /\ result'.success
         THEN /\ performanceMetrics'.totalSequencesAnalyzed =
                   performanceMetrics.totalSequencesAnalyzed + 1
              /\ performanceMetrics'.longestSequenceLength =
                   (IF Len(sequence'.items) > performanceMetrics.longestSequenceLength
                    THEN Len(sequence'.items)
                    ELSE performanceMetrics.longestSequenceLength)
         ELSE performanceMetrics' = performanceMetrics]_vars

(* a shorter sequence predicted after a longer one and a clear *)
LifetimeMetricsWitness ==
  /\ lastOp = "predictNextNumber"
  /\ result.success
  /\ Len(memories) = 1
  /\ performanceMetrics.totalSequencesAnalyzed = 2
  /\ performanceMetrics.longestSequenceLength > Len(sequence.items)

(* C25: the Memory stored for an arithmetic classification records in      *)
(* patternDetails.difference the difference reported in the result, for    *)
(* every common difference including 0; a geometric Memory records the     *)
(* ratio and a polynomial Memory the degree of the result.                 *)
DetailsRecorded ==
  (lastOp = "predictNextNumber" /\ result.success) =>
    /\ result.pattern = "arithmetic" =>
         Last(memories).patternDetails.difference = result.patternDetails.difference
    /\ result.pattern = "geometric" =>
         Last(memories).patternDetails.ratio = result.patternDetails.ratio
    /\ result.pattern = "polynomial" =>
         Last(memories).patternDetails.degree = result.patternDetails.degree

ReadOperations == {"getStatistics", "getMemories"}

(* C23: getStatistics and getMemories are read-only: a call to either, in  *)
(* any state, leaves the Memory list, the id counter and the performance   *)
(* metrics as they were.                                                   *)
ReadOnly ==
  [][lastOp' \in ReadOperations =>
       (/\ memories' = memories
        /\ echoCount' = echoCount
        /\ performanceMetrics' = performanceMetrics)]_vars

(* the statistics are read after the list has been read, with a Memory     *)
(* stored and the metrics counting two analyses                            *)
ReadOnlyWitness ==
  /\ lastOp = "getStatistics"
  /\ handle # <<>>
  /\ Len(memories) >= 1
  /\ performanceMetrics.totalSequencesAnalyzed = 2
  /\ result.performanceMetrics = performanceMetrics

(* C24: importData with data whose version is not '3.0' returns false and  *)
(* leaves the Memory list, the analysis history and the id counter as they *)
(* were; with version '3.0' it returns true, takes over the Memories and   *)
(* sets the id counter to their number.                                    *)
ImportChecked ==
  [][lastOp' = "importData" =>
       IF "version" \in DOMAIN argument' /\ argument'.version = "3.0"
       THEN /\ result'.success
            /\ memories' = (IF "memories" \in DOMAIN argument'
                            THEN argument'.memories ELSE <<>>)
            /\ echoCount' = Len(memories')
       ELSE /\ ~result'.success
            /\ memories' = memories
            /\ analysisHistory' = analysisHistory
            /\ echoCount' = echoCount]_vars

(* data of another version, carrying Memories, was refused by an engine    *)
(* that holds a Memory                                                     *)
ImportCheckedWitness ==
  /\ lastOp = "importData"
  /\ ~result.success
  /\ "memories" \in DOMAIN argument
  /\ Len(memories) = 1
  /\ echoCount = 1

(* an array of integers *)
IsIntegerSequence(seq) ==
  /\ seq.isArray
  /\ \A i \in 1..Len(seq.items) : seq.items[i].k = "num" /\ seq.items[i].d = 1

(* no call of the series so far was classified geometric or polynomial *)
OnlyArithmeticStored ==
  /\ performanceMetrics.patternDistribution.geometric = 0
  /\ performanceMetrics.patternDistribution.polynomial = 0

====
